---- MODULE Spec2Model ----
(***************************************************************************)
(* Model of pkg/core/client.go: the Hysteria client's connection           *)
(* lifecycle (NewClient, connect, openStreamWithReconnect, Close), the     *)
(* stream dialers (DialTCP, DialUDP), the datagram pump (handleMessage)    *)
(* and the UDP session handle (hyUDPConn).                                 *)
(*                                                                         *)
(* Objects are identified by small integers.  Every connect() attempt      *)
(* that gets a packet conn from the factory is numbered 1, 2, ...; the     *)
(* packet conn, the QUIC connection and the session map made by attempt a  *)
(* are all called a.  Every UDP handle is numbered 1, 2, ...; the channel  *)
(* made by DialUDP for handle h is called h as well.  0 is nil.            *)
(***************************************************************************)
EXTENDS Integers, Sequences, FiniteSets, TLC

\* ---------------------------------------------------------------- bounds
MaxConns   == 2        \* connect() attempts that get a packet conn
MaxHandles == 2        \* UDP handles created over the whole run
MaxDials   == 2        \* DialTCP / DialUDP calls over the whole run
MaxSid     == 2        \* session IDs the server hands out are 1..MaxSid
MaxRecv    == 2        \* datagrams the pumps receive over the whole run
MaxCloses  == 1        \* Client.Close calls over the whole run
MaxUserCloses == 2     \* user Close calls per UDP handle
ChanCap    == 2        \* capacity of a receive channel (1024 in the code)
MaxMsgID   == 1        \* fragmented datagrams carry a msgID in 1..MaxMsgID
MaxFrags   == 2        \* fragCount of a fragmented datagram
MaxDefragMsgID == 2    \* msgIDs of the fragments fed to the defragger on its own
MaxFifoRecv == 3       \* datagrams the pump receives when the queues are explored
MaxWrites  == 2        \* WriteTo calls per UDP handle
MaxData    == 3        \* payload lengths of a WriteTo call are 1..MaxData

\* The goroutines of the program's user: the one that calls NewClient, two
\* that call DialTCP / DialUDP concurrently, one that calls Client.Close.
Constructor == "new"
Dialers  == {"dial1", "dial2"}
Procs    == {Constructor} \cup Dialers
CloserId == "close"
Unlocked == "unlocked"
ConnIds  == 1..MaxConns
HandleIds == 1..MaxHandles
SessionIDs == 1..MaxSid
Messages == {"bad auth", "banned"} \* texts the server may put in a hello/response

\* ---------------------------------------------------------------- errors
Err(kind, msg) == <<kind, msg>>
NoErr        == Err("nil", "")
ErrClosed    == Err("closed", "")
ErrTemporary == Err("temporary", "")
ErrPermanent == Err("permanent", "")
ErrBadAddr   == Err("bad address", "")

\* application-close codes
qErrorGeneric  == "generic"
qErrorProtocol == "protocol"
qErrorAuth     == "auth"

VARIABLES
    panic,           \* "none", or the runtime panic that ended the program
    closed,          \* Client.closed
    pktConn,         \* Client.pktConn  (0 = nil)
    quicConn,        \* Client.quicConn (0 = nil)
    udpSessionMap,   \* Client.udpSessionMap: which map object is current
    udpDefragger,    \* Client.udpDefragger
    reconnectMutex,  \* Unlocked, or the goroutine that holds it
    conns,           \* the packet conn / QUIC connection of every attempt
    nConns,          \* attempts made so far
    maps,            \* the session map objects: maps[a][sid] = channel or 0
    handles,         \* the hyUDPConn objects with their channel
    nHandles,
    proc,            \* the NewClient caller and the dialers
    nDials,
    closer,          \* the caller of Client.Close
    pump,            \* the handleMessage goroutine of every connection
    nRecv

vars == <<panic, closed, pktConn, quicConn, udpSessionMap, udpDefragger,
          reconnectMutex, conns, nConns, maps, handles, nHandles,
          proc, nDials, closer, pump, nRecv>>

\* ------------------------------------------------------- initial objects
NoConn == [pkt |-> "none", dialed |-> FALSE, appClose |-> "none",
           broken |-> FALSE, cc |-> FALSE, sids |-> {}, rejected |-> ""]

EmptyMap == [s \in SessionIDs |-> 0]

\* the locals of a WriteTo call on a handle; sent, first and failed are
\* history: the frames handed to SendMessage, the outcome of the first send
\* and the position in sent of a fragment whose send failed
NoWrite == [pc |-> "idle", calls |-> 0, len |-> 0, sent |-> <<>>, first |-> "none",
            msgID |-> 0, todo |-> <<>>, res |-> NoErr, failed |-> 0]

NoHandle == [made |-> FALSE, Session |-> 0, UDPSessionID |-> 0,
             sessionMap |-> 0, streamClosed |-> FALSE,
             q |-> <<>>, chCloses |-> 0, hold |-> "none", userCloses |-> 0,
             closeSaw |-> 0, enq |-> <<>>, deq |-> <<>>, w |-> NoWrite]

NoProc == [pc |-> "idle", kind |-> "none", err |-> NoErr, att |-> 0,
           session |-> 0, sid |-> 0, res |-> NoErr, hnd |-> 0,
           trace |-> <<>>, afterClose |-> FALSE, addrOK |-> TRUE]

NoDefrag == [msgID |-> 0, count |-> 0, frags |-> {}, replaced |-> FALSE]

NoPump == [pc |-> "none", msg |-> <<>>, last |-> "none"]

\* A QUIC connection the client can still use: dialed, not closed by the
\* client and not lost (timed out / closed by the peer).
Usable(a) == a # 0 /\ conns[a].dialed /\ conns[a].appClose = "none" /\ ~conns[a].broken

\* NewClient, lines 64-75: the struct is built and connect() is about to run.
Init ==
    /\ panic = "none"
    /\ closed = FALSE
    /\ pktConn = 0
    /\ quicConn = 0
    /\ udpSessionMap = 0
    /\ udpDefragger = [s \in SessionIDs |-> NoDefrag]
    /\ reconnectMutex = Unlocked
    /\ conns = [a \in ConnIds |-> NoConn]
    /\ nConns = 0
    /\ maps = [a \in ConnIds |-> EmptyMap]
    /\ handles = [h \in HandleIds |-> NoHandle]
    /\ nHandles = 0
    /\ proc = [p \in Procs |-> IF p = Constructor THEN [NoProc EXCEPT !.pc = "connect", !.kind = "new"]
                                        ELSE NoProc]
    /\ nDials = 0
    /\ closer = [pc |-> "idle", calls |-> 0, returned |-> FALSE]
    /\ pump = [a \in ConnIds |-> NoPump]
    /\ nRecv = 0

\* ------------------------------------------------------------- connect()
\* CloseWithError / qError.Send: the first application-close wins.
SendClose(cs, a, code) ==
    IF a # 0 /\ cs[a].dialed /\ cs[a].appClose = "none"
    THEN [cs EXCEPT ![a].appClose = code] ELSE cs

ClosePkt(cs, a) ==
    IF a # 0 /\ cs[a].pkt = "open" THEN [cs EXCEPT ![a].pkt = "closed"] ELSE cs

\* connect() returns err to its caller: NewClient (lines 75-77) gives up,
\* openStreamWithReconnect (lines 205-208) returns the error.
ConnectFailed(p, e) ==
    IF p = Constructor
    THEN /\ proc' = [proc EXCEPT ![p].pc = "failed", ![p].res = e]
         /\ UNCHANGED reconnectMutex
    ELSE /\ proc' = [proc EXCEPT ![p].pc = "ret", ![p].res = e]
         /\ reconnectMutex' = Unlocked

\* connect() forgetting line 84: the previous QUIC connection is left open
ClearPreviousPktOnly == ClosePkt(conns, pktConn)

\* lines 82-88: clear the previous connection
ClearPrevious == ClosePkt(SendClose(conns, quicConn, "zero"), pktConn)

ConnectClear(p) ==
    /\ proc[p].pc = "connect"
    /\ conns' = ClearPrevious
    /\ proc' = [proc EXCEPT ![p].pc = "factory",
                            ![p].trace = Append(@, <<"connect", "">>)]
    /\ UNCHANGED <<panic, closed, pktConn, quicConn, udpSessionMap, udpDefragger,
                   reconnectMutex, nConns, maps, handles, nHandles,
                   nDials, closer, pump, nRecv>>

\* lines 90-93: the packet-conn factory
ConnectFactory(p, ok) ==
    /\ proc[p].pc = "factory"
    /\ IF ok
       THEN /\ nConns < MaxConns
            /\ nConns' = nConns + 1
            /\ conns' = [conns EXCEPT ![nConns + 1].pkt = "open"]
            /\ proc' = [proc EXCEPT ![p].pc = "quicdial", ![p].att = nConns + 1]
            /\ UNCHANGED reconnectMutex
       ELSE /\ ConnectFailed(p, Err("factory", ""))
            /\ UNCHANGED <<nConns, conns>>
    /\ UNCHANGED <<panic, closed, pktConn, quicConn, udpSessionMap, udpDefragger,
                   maps, handles, nHandles, nDials, closer, pump, nRecv>>

\* lines 95-99: quic.Dial
ConnectQuicDial(p, ok) ==
    /\ proc[p].pc = "quicdial"
    /\ IF ok
       THEN /\ conns' = [conns EXCEPT ![proc[p].att].dialed = TRUE]
            /\ proc' = [proc EXCEPT ![p].pc = "handshake"]
            /\ UNCHANGED reconnectMutex
       ELSE /\ conns' = ClosePkt(conns, proc[p].att)
            /\ ConnectFailed(p, Err("dial", ""))
    /\ UNCHANGED <<panic, closed, pktConn, quicConn, udpSessionMap, udpDefragger,
                   nConns, maps, handles, nHandles, nDials, closer, pump, nRecv>>

\* line 118
AuthError(msg) == Err("auth error", msg)

\* What the server answers on the control stream (lines 102-119):
\* the stream cannot be opened, the handshake I/O fails, the server hello
\* says ok=false with a message, or ok=true.
HandshakeOutcomes ==
    {<<"streamErr", "">>, <<"hsErr", "">>, <<"ok", "">>} \cup {<<"reject", m>> : m \in Messages}

\* a rejection handled like a handshake I/O error (line 111 in place of 116)
ConnectRejectedAsProtocolError(p, msg) ==
    /\ conns' = [ClosePkt(SendClose(conns, proc[p].att, qErrorProtocol), proc[p].att)
                    EXCEPT ![proc[p].att].rejected = msg]
    /\ ConnectFailed(p, AuthError(msg))
    /\ UNCHANGED <<pktConn, quicConn, udpSessionMap, maps, pump>>

\* lines 115-119: server hello with ok=false
ConnectRejected(p, msg) ==
    /\ conns' = [ClosePkt(SendClose(conns, proc[p].att, qErrorAuth), proc[p].att)
                    EXCEPT ![proc[p].att].rejected = msg]
    /\ ConnectFailed(p, AuthError(msg))
    /\ UNCHANGED <<pktConn, quicConn, udpSessionMap, maps, pump>>

\* a failure path that forgets pktConn.Close() (lines 106 and 112)
ConnectProtocolErrorLeaking(p, kind) ==
    /\ conns' = SendClose(conns, proc[p].att, qErrorProtocol)
    /\ ConnectFailed(p, Err(kind, ""))
    /\ UNCHANGED <<pktConn, quicConn, udpSessionMap, maps, pump>>

\* lines 104-108 and 110-114: the control stream or the handshake I/O failed
ConnectProtocolError(p, kind) ==
    /\ conns' = ClosePkt(SendClose(conns, proc[p].att, qErrorProtocol), proc[p].att)
    /\ ConnectFailed(p, Err(kind, ""))
    /\ UNCHANGED <<pktConn, quicConn, udpSessionMap, maps, pump>>

\* line 153 and lines 120-125: congestion control, fresh map, pump, install
ConnectInstall(p) ==
    LET a == proc[p].att IN
    /\ conns' = [conns EXCEPT ![a].cc = TRUE]
    /\ maps' = [maps EXCEPT ![a] = EmptyMap]
    /\ udpSessionMap' = a
    /\ pump' = [pump EXCEPT ![a] = [NoPump EXCEPT !.pc = "recv"]]
    /\ pktConn' = a
    /\ quicConn' = a
    /\ IF p = Constructor
       THEN proc' = [proc EXCEPT ![p].pc = "ready"]
       ELSE proc' = [proc EXCEPT ![p].pc = "open2"]
    /\ UNCHANGED reconnectMutex

ConnectHandshake(p, o) ==
    /\ proc[p].pc = "handshake"
    /\ Usable(proc[p].att) \/ o[1] \in {"streamErr", "hsErr"}
    /\ CASE o[1] = "streamErr" -> ConnectProtocolError(p, "stream")
         [] o[1] = "hsErr"     -> ConnectProtocolError(p, "handshake")
         [] o[1] = "reject"    -> ConnectRejected(p, o[2])
         [] o[1] = "ok"        -> ConnectInstall(p)
    /\ UNCHANGED <<panic, closed, udpDefragger, nConns, handles, nHandles,
                   nDials, closer, nRecv>>

\* --------------------------------------------- openStreamWithReconnect()
ClientReady == proc[Constructor].pc = "ready"      \* NewClient returned the client

\* DialTCP lines 215-218 (the address is parsed first) and DialUDP line 252
DialStart(p, k, addrOK) ==
    /\ ClientReady
    /\ proc[p].pc = "idle"
    /\ nDials < MaxDials
    /\ nDials' = nDials + 1
    /\ IF k = "TCP" /\ ~addrOK
       THEN proc' = [proc EXCEPT ![p] = [NoProc EXCEPT !.kind = k, !.res = ErrBadAddr,
                                                       !.pc = "ret", !.addrOK = FALSE,
                                                       !.afterClose = closer.returned]]
       ELSE proc' = [proc EXCEPT ![p] = [NoProc EXCEPT !.kind = k, !.pc = "lock",
                                                       !.afterClose = closer.returned]]
    /\ UNCHANGED <<panic, closed, pktConn, quicConn, udpSessionMap, udpDefragger,
                   reconnectMutex, conns, nConns, maps, handles, nHandles,
                   closer, pump, nRecv>>

\* a dial that goes on without waiting for the mutex
DialLockNotWaiting(p) ==
    /\ proc[p].pc = "lock"
    /\ IF closed
       THEN /\ proc' = [proc EXCEPT ![p].pc = "ret", ![p].res = ErrClosed]
            /\ UNCHANGED reconnectMutex
       ELSE /\ proc' = [proc EXCEPT ![p].pc = "open1"]
            /\ reconnectMutex' = p
    /\ UNCHANGED <<panic, closed, pktConn, quicConn, udpSessionMap, udpDefragger,
                   conns, nConns, maps, handles, nHandles, nDials, closer,
                   pump, nRecv>>

\* lines 188-192
DialLock(p) ==
    /\ proc[p].pc = "lock"
    /\ reconnectMutex = Unlocked
    /\ IF closed
       THEN /\ proc' = [proc EXCEPT ![p].pc = "ret", ![p].res = ErrClosed]
            /\ UNCHANGED reconnectMutex
       ELSE /\ proc' = [proc EXCEPT ![p].pc = "open1"]
            /\ reconnectMutex' = p
    /\ UNCHANGED <<panic, closed, pktConn, quicConn, udpSessionMap, udpDefragger,
                   conns, nConns, maps, handles, nHandles, nDials, closer,
                   pump, nRecv>>

\* What OpenStream can return on connection a: a stream or a temporary
\* error (e.g. too many streams) while the connection is usable, the
\* connection's permanent error once it is closed or lost.
OpenOutcomes(a) == IF Usable(a) THEN {NoErr, ErrTemporary} ELSE {ErrPermanent}

\* every error taken for a permanent one
IsTemporaryNever(e) == FALSE

\* line 199: nErr.Temporary()
IsTemporary(e) == e = ErrTemporary

\* lines 193-202
DialOpenFirst(p, e) ==
    /\ proc[p].pc = "open1"
    /\ e \in OpenOutcomes(quicConn)
    /\ IF e = NoErr
       THEN /\ proc' = [proc EXCEPT ![p].pc = "request", ![p].session = quicConn,
                                    ![p].trace = Append(@, <<"open", "">>)]
            /\ reconnectMutex' = Unlocked
       ELSE IF IsTemporary(e)
       THEN /\ proc' = [proc EXCEPT ![p].pc = "ret", ![p].res = e,
                                    ![p].trace = Append(@, <<"open", e[1]>>)]
            /\ reconnectMutex' = Unlocked
       ELSE /\ proc' = [proc EXCEPT ![p].pc = "notify", ![p].err = e,
                                    ![p].trace = Append(@, <<"open", e[1]>>)]
            /\ UNCHANGED reconnectMutex
    /\ UNCHANGED <<panic, closed, pktConn, quicConn, udpSessionMap, udpDefragger,
                   conns, nConns, maps, handles, nHandles, nDials, closer,
                   pump, nRecv>>

\* the reconnect without the call of the notifier
DialNotifySkipped(p) ==
    /\ proc[p].pc = "notify"
    /\ proc' = [proc EXCEPT ![p].pc = "connect"]
    /\ UNCHANGED <<panic, closed, pktConn, quicConn, udpSessionMap, udpDefragger,
                   reconnectMutex, conns, nConns, maps, handles, nHandles,
                   nDials, closer, pump, nRecv>>

\* line 203: c.quicReconnectFunc(err)
DialNotify(p) ==
    /\ proc[p].pc = "notify"
    /\ proc' = [proc EXCEPT ![p].pc = "connect",
                            ![p].trace = Append(@, <<"notify", proc[p].err[1]>>)]
    /\ UNCHANGED <<panic, closed, pktConn, quicConn, udpSessionMap, udpDefragger,
                   reconnectMutex, conns, nConns, maps, handles, nHandles,
                   nDials, closer, pump, nRecv>>

\* a second OpenStream that, failing, reconnects again instead of returning
DialOpenSecondRetrying(p, e) ==
    /\ proc[p].pc = "open2"
    /\ e \in OpenOutcomes(quicConn)
    /\ IF e = NoErr
       THEN /\ proc' = [proc EXCEPT ![p].pc = "request", ![p].session = quicConn,
                                    ![p].trace = Append(@, <<"open", "">>)]
            /\ reconnectMutex' = Unlocked
       ELSE /\ proc' = [proc EXCEPT ![p].pc = "notify", ![p].err = e,
                                    ![p].trace = Append(@, <<"open", e[1]>>)]
            /\ UNCHANGED reconnectMutex
    /\ UNCHANGED <<panic, closed, pktConn, quicConn, udpSessionMap, udpDefragger,
                   conns, nConns, maps, handles, nHandles, nDials, closer,
                   pump, nRecv>>

\* lines 209-211: the one retry after a successful connect()
DialOpenSecond(p, e) ==
    /\ proc[p].pc = "open2"
    /\ e \in OpenOutcomes(quicConn)
    /\ IF e = NoErr
       THEN proc' = [proc EXCEPT ![p].pc = "request", ![p].session = quicConn,
                                ![p].trace = Append(@, <<"open", "">>)]
       ELSE proc' = [proc EXCEPT ![p].pc = "ret", ![p].res = e,
                                ![p].trace = Append(@, <<"open", e[1]>>)]
    /\ reconnectMutex' = Unlocked
    /\ UNCHANGED <<panic, closed, pktConn, quicConn, udpSessionMap, udpDefragger,
                   conns, nConns, maps, handles, nHandles, nDials, closer,
                   pump, nRecv>>

\* ------------------------------------------------------ DialTCP / DialUDP
\* What the request/response exchange on the new stream can give: the
\* request cannot be written, the response cannot be read, the server says
\* ok=false with a message, or ok=true (with a session ID for UDP, one the
\* server has not yet used on this connection).
Responses ==
    {<<"packErr", "", 0>>, <<"unpackErr", "", 0>>, <<"ok", "", 0>>}
    \cup {<<"reject", m, 0>> : m \in Messages}
    \cup {<<"ok", "", s>> : s \in SessionIDs}

RequestOutcomes(p) ==
    {<<"packErr", "", 0>>, <<"unpackErr", "", 0>>}
    \cup (IF Usable(proc[p].session)
          THEN {<<"reject", m, 0>> : m \in Messages}
               \cup (IF proc[p].kind = "TCP" THEN {<<"ok", "", 0>>}
                     ELSE {<<"ok", "", s>> : s \in SessionIDs \ conns[proc[p].session].sids})
          ELSE {})

\* DialTCP lines 223-248, DialUDP lines 256-274
DialRequest(p, o) ==
    /\ proc[p].pc = "request"
    /\ o \in RequestOutcomes(p)
    /\ CASE o[1] = "packErr" ->
              /\ proc' = [proc EXCEPT ![p].pc = "ret", ![p].res = Err("pack", "")]
              /\ UNCHANGED conns
         [] o[1] = "unpackErr" ->
              /\ proc' = [proc EXCEPT ![p].pc = "ret", ![p].res = Err("unpack", "")]
              /\ UNCHANGED conns
         [] o[1] = "reject" ->
              /\ proc' = [proc EXCEPT ![p].pc = "ret",
                                      ![p].res = Err("connection rejected", o[2])]
              /\ UNCHANGED conns
         [] o[1] = "ok" /\ proc[p].kind = "TCP" ->
              /\ proc' = [proc EXCEPT ![p].pc = "ret", ![p].res = NoErr]
              /\ UNCHANGED conns
         [] o[1] = "ok" /\ proc[p].kind = "UDP" ->
              /\ nHandles + Cardinality({q \in Dialers : proc[q].pc = "install"}) < MaxHandles
              /\ proc' = [proc EXCEPT ![p].pc = "install", ![p].sid = o[3]]
              /\ conns' = [conns EXCEPT ![proc[p].session].sids = @ \cup {o[3]}]
    /\ UNCHANGED <<panic, closed, pktConn, quicConn, udpSessionMap, udpDefragger,
                   reconnectMutex, nConns, maps, handles, nHandles, nDials,
                   closer, pump, nRecv>>

\* line 282: the map the new channel is put into and the close hook keeps
InstallMap == udpSessionMap

\* DialUDP lines 276-301
DialInstall(p) ==
    LET h == nHandles + 1
        m == InstallMap IN
    /\ proc[p].pc = "install"
    /\ nHandles' = h
    /\ maps' = [maps EXCEPT ![m][proc[p].sid] = h]
    /\ handles' = [handles EXCEPT ![h] =
                       [NoHandle EXCEPT !.made = TRUE, !.Session = proc[p].session,
                                        !.UDPSessionID = proc[p].sid,
                                        !.sessionMap = m, !.hold = "read"]]
    /\ proc' = [proc EXCEPT ![p].pc = "ret", ![p].res = NoErr, ![p].hnd = h]
    /\ UNCHANGED <<panic, closed, pktConn, quicConn, udpSessionMap, udpDefragger,
                   reconnectMutex, conns, nConns, nDials, closer, pump, nRecv>>

\* the caller takes the result of DialTCP / DialUDP (lines 248, 301 and the
\* error returns); the call's locals are gone
DialReturn(p) ==
    /\ proc[p].pc = "ret"
    /\ proc' = [proc EXCEPT ![p] = NoProc]
    /\ UNCHANGED <<panic, closed, pktConn, quicConn, udpSessionMap, udpDefragger,
                   reconnectMutex, conns, nConns, maps, handles, nHandles, nDials,
                   closer, pump, nRecv>>

\* ----------------------------------------------------------- Client.Close
\* line 305
CloseLock ==
    /\ ClientReady
    /\ closer.pc = "idle"
    /\ closer.calls < MaxCloses
    /\ reconnectMutex = Unlocked
    /\ reconnectMutex' = CloserId
    /\ closer' = [closer EXCEPT !.pc = "locked"]
    /\ UNCHANGED <<panic, closed, pktConn, quicConn, udpSessionMap, udpDefragger,
                   conns, nConns, maps, handles, nHandles, proc, nDials, pump, nRecv>>

\* Close forgetting line 309: the flag is not set
CloseBodyKeepsOpen ==
    /\ closer.pc = "locked"
    /\ conns' = ClosePkt(SendClose(conns, quicConn, qErrorGeneric), pktConn)
    /\ reconnectMutex' = Unlocked
    /\ closer' = [pc |-> "idle", calls |-> closer.calls + 1, returned |-> TRUE]
    /\ UNCHANGED <<panic, closed, pktConn, quicConn, udpSessionMap, udpDefragger,
                   nConns, maps, handles, nHandles, proc, nDials, pump, nRecv>>

\* lines 307-310
CloseBody ==
    /\ closer.pc = "locked"
    /\ conns' = ClosePkt(SendClose(conns, quicConn, qErrorGeneric), pktConn)
    /\ closed' = TRUE
    /\ reconnectMutex' = Unlocked
    /\ closer' = [pc |-> "idle", calls |-> closer.calls + 1, returned |-> TRUE]
    /\ UNCHANGED <<panic, pktConn, quicConn, udpSessionMap, udpDefragger,
                   nConns, maps, handles, nHandles, proc, nDials, pump, nRecv>>

\* -------------------------------------------------------------- hyUDPConn
\* a close hook that looks its session up in the client's current map
CloseFuncMapCurrent(h) == udpSessionMap

\* line 291: the map the close hook looks its session up in
CloseFuncMap(h) == handles[h].sessionMap

\* the channel the close hook finds at its session ID (0: none)
CloseFuncChan(h) == maps[CloseFuncMap(h)][handles[h].UDPSessionID]

\* a close hook that closes the channel and leaves its entry in the map
CloseFuncMapsKeepingEntry(h) == maps

\* lines 289-296: the effect of CloseFunc of handle h on the maps, the
\* channels and the program
CloseFuncMaps(h) ==
    IF CloseFuncChan(h) # 0
    THEN [maps EXCEPT ![CloseFuncMap(h)][handles[h].UDPSessionID] = 0]
    ELSE maps

CloseFuncChans(h) ==
    IF CloseFuncChan(h) # 0
    THEN [handles EXCEPT ![CloseFuncChan(h)].chCloses = @ + 1]
    ELSE handles

CloseFuncPanic(h) ==
    IF CloseFuncChan(h) # 0 /\ handles[CloseFuncChan(h)].chCloses > 0
    THEN "close of closed channel" ELSE panic

\* What a Close of handle h finds in the current map under its session ID
\* when the current map is no longer the one h captured (0: nothing, or the
\* current map is the captured one).  History only: nothing reads it.
CloseSaw(h) ==
    IF udpSessionMap # handles[h].sessionMap
    THEN maps[udpSessionMap][handles[h].UDPSessionID] ELSE 0

\* DialUDP has returned handle h to its caller
Returned(h) == handles[h].made /\ \A p \in Dialers : proc[p].hnd # h

\* Stream.Read of the side stream fails: the stream was closed locally or
\* its connection is closed or lost (or the server closed the stream, which
\* it may do at any time: serverEOF).
StreamDead(h) == handles[h].streamClosed \/ ~Usable(handles[h].Session)

\* Hold, lines 366-375: the read fails and Close (lines 426-428) runs
HoldClose(h, serverEOF) ==
    /\ handles[h].hold = "read"
    /\ StreamDead(h) \/ serverEOF
    /\ maps' = CloseFuncMaps(h)
    /\ handles' = [CloseFuncChans(h) EXCEPT ![h].hold = "done", ![h].streamClosed = TRUE,
                                           ![h].closeSaw = CloseSaw(h)]
    /\ panic' = CloseFuncPanic(h)
    /\ UNCHANGED <<closed, pktConn, quicConn, udpSessionMap, udpDefragger,
                   reconnectMutex, conns, nConns, nHandles, proc, nDials,
                   closer, pump, nRecv>>

\* the user calls Close on a handle DialUDP returned: lines 426-428
UserClose(h) ==
    /\ Returned(h)
    /\ handles[h].userCloses < MaxUserCloses
    /\ maps' = CloseFuncMaps(h)
    /\ handles' = [CloseFuncChans(h) EXCEPT ![h].userCloses = @ + 1,
                                           ![h].streamClosed = TRUE,
                                           ![h].closeSaw = CloseSaw(h)]
    /\ panic' = CloseFuncPanic(h)
    /\ UNCHANGED <<closed, pktConn, quicConn, udpSessionMap, udpDefragger,
                   reconnectMutex, conns, nConns, nHandles, proc, nDials,
                   closer, pump, nRecv>>

\* ReadFrom, lines 378-385, when it does not block: it takes the oldest
\* message; on an empty closed channel it returns ErrClosed and changes nothing.
\* deq records the payloads returned so far (history only: nothing reads it).
ReadFrom(h) ==
    /\ Returned(h)
    /\ handles[h].q # <<>>
    /\ handles' = [handles EXCEPT ![h].q = Tail(@),
                                  ![h].deq = Append(@, Head(handles[h].q).Data)]
    /\ UNCHANGED <<panic, closed, pktConn, quicConn, udpSessionMap, udpDefragger,
                   reconnectMutex, conns, nConns, maps, nHandles, proc, nDials,
                   closer, pump, nRecv>>

\* ---------------------------------------------------------------- WriteTo
RandLimit == 65535      \* 0xFFFF, the argument of rand.Intn at line 406
Uint16    == 65536      \* uint16(...) at line 406 keeps the value modulo 2^16

\* values rand.Intn(0xFFFF) may return: the least, the next, the greatest
Rands == {0, 1, RandLimit - 1}

\* line 406: uint16(rand.Intn(0xFFFF)) + 1
NewMsgID(r) == ((r % Uint16) + 1) % Uint16

\* the fixed per-fragment header overhead of the fragmenter
FragOverhead == 1

\* the sizes S the transport may report with "message too large"; the
\* fragmenter's budget S - FragOverhead is positive for all of them
Sizes == {FragOverhead + 1, FragOverhead + 2}

\* fragUDPMessage: ceil(len / budget) fragments that share the message's
\* msgID, with sequential fragID and the fragment count
fragUDPMessage(msg, len, S) ==
    LET budget == S - FragOverhead
        count  == (len + budget - 1) \div budget IN
    [i \in 1..count |-> [msg EXCEPT !.FragID = i - 1, !.FragCount = count]]

\* lines 388-391: the address is parsed; a call begins
WriteStart(h, addrOK, len) ==
    /\ Returned(h)
    /\ handles[h].w.pc = "idle"
    /\ handles[h].w.calls < MaxWrites
    /\ handles' = [handles EXCEPT ![h].w =
                      [NoWrite EXCEPT !.calls = handles[h].w.calls + 1,
                                      !.len = len,
                                      !.pc = IF addrOK THEN "first" ELSE "ret",
                                      !.res = IF addrOK THEN NoErr ELSE ErrBadAddr]]
    /\ UNCHANGED <<panic, closed, pktConn, quicConn, udpSessionMap, udpDefragger,
                   reconnectMutex, conns, nConns, maps, nHandles, proc, nDials,
                   closer, pump, nRecv>>

\* what Session.SendMessage may answer for a packed message of len payload
\* bytes: sent, too large for the size S the path allows, or another error
\* (the only answer once the connection is closed or lost)
SendOutcomes(h, len) ==
    {<<"err", 0>>}
    \cup (IF Usable(handles[h].Session)
          THEN {<<"ok", 0>>} \cup {<<"tooLarge", S>> : S \in {T \in Sizes : len + FragOverhead > T}}
          ELSE {})

\* lines 392-407 and 416-423: the unfragmented message is sent first
WriteFirst(h, o, r) ==
    LET w   == handles[h].w
        msg == [SessionID |-> handles[h].UDPSessionID, MsgID |-> 0,
                FragID |-> 0, FragCount |-> 1]
        w1  == [w EXCEPT !.sent = <<msg>>, !.first = o[1]] IN
    /\ w.pc = "first"
    /\ o \in SendOutcomes(h, w.len)
    /\ handles' = [handles EXCEPT ![h].w =
          CASE o[1] = "ok"  -> [w1 EXCEPT !.pc = "ret", !.res = NoErr]
            [] o[1] = "err" -> [w1 EXCEPT !.pc = "ret", !.res = Err("send", "")]
            [] o[1] = "tooLarge" ->
                  [w1 EXCEPT !.pc = "frags", !.msgID = NewMsgID(r),
                             !.todo = fragUDPMessage([msg EXCEPT !.MsgID = NewMsgID(r)],
                                                     w.len, o[2])]]
    /\ UNCHANGED <<panic, closed, pktConn, quicConn, udpSessionMap, udpDefragger,
                   reconnectMutex, conns, nConns, maps, nHandles, proc, nDials,
                   closer, pump, nRecv>>

\* a loop over the fragments that goes on after a send error
WriteFragNotStopping(h, ok) ==
    LET w  == handles[h].w
        w1 == [w EXCEPT !.sent = Append(@, Head(w.todo)), !.todo = Tail(@)] IN
    /\ w.pc = "frags"
    /\ ok => Usable(handles[h].Session)
    /\ handles' = [handles EXCEPT ![h].w =
          IF ok
          THEN IF w1.todo = <<>> THEN [w1 EXCEPT !.pc = "ret", !.res = NoErr] ELSE w1
          ELSE IF w1.todo = <<>>
               THEN [w1 EXCEPT !.pc = "ret", !.res = Err("send", ""), !.failed = Len(w1.sent)]
               ELSE [w1 EXCEPT !.failed = Len(w1.sent)]]
    /\ UNCHANGED <<panic, closed, pktConn, quicConn, udpSessionMap, udpDefragger,
                   reconnectMutex, conns, nConns, maps, nHandles, proc, nDials,
                   closer, pump, nRecv>>

\* lines 408-415: the next fragment is sent; the first error ends the call
WriteFrag(h, ok) ==
    LET w  == handles[h].w
        w1 == [w EXCEPT !.sent = Append(@, Head(w.todo)), !.todo = Tail(@)] IN
    /\ w.pc = "frags"
    /\ ok => Usable(handles[h].Session)
    /\ handles' = [handles EXCEPT ![h].w =
          IF ok
          THEN IF w1.todo = <<>> THEN [w1 EXCEPT !.pc = "ret", !.res = NoErr] ELSE w1
          ELSE [w1 EXCEPT !.pc = "ret", !.res = Err("send", ""), !.failed = Len(w1.sent)]]
    /\ UNCHANGED <<panic, closed, pktConn, quicConn, udpSessionMap, udpDefragger,
                   reconnectMutex, conns, nConns, maps, nHandles, proc, nDials,
                   closer, pump, nRecv>>

\* WriteTo returns to its caller (lines 390, 412, 415, 419, 422)
WriteReturn(h) ==
    /\ handles[h].w.pc = "ret"
    /\ handles' = [handles EXCEPT ![h].w.pc = "idle"]
    /\ UNCHANGED <<panic, closed, pktConn, quicConn, udpSessionMap, udpDefragger,
                   reconnectMutex, conns, nConns, maps, nHandles, proc, nDials,
                   closer, pump, nRecv>>

\* ------------------------------------------------------------ environment
\* a QUIC connection is lost: idle timeout, or closed by the peer
ConnBreak(a) ==
    /\ Usable(a)
    /\ conns' = [conns EXCEPT ![a].broken = TRUE]
    /\ UNCHANGED <<panic, closed, pktConn, quicConn, udpSessionMap, udpDefragger,
                   reconnectMutex, nConns, maps, handles, nHandles, proc, nDials,
                   closer, pump, nRecv>>

\* ----------------------------------------------------------- the defragger
\* datagrams the server may send: unfragmented ones (msgID 0, fragCount 1)
\* and the fragments of fragmented ones (FragID = MaxFrags is out of range)
Datagrams ==
    {[SessionID |-> s, MsgID |-> 0, FragID |-> 0, FragCount |-> 1] : s \in SessionIDs}
    \cup {[SessionID |-> s, MsgID |-> i, FragID |-> f, FragCount |-> MaxFrags] :
              s \in SessionIDs, i \in 1..MaxMsgID, f \in 0..MaxFrags}

\* a datagram struc.Unpack rejects (lines 165-168)
Malformed == [SessionID |-> 0, MsgID |-> 0, FragID |-> 0, FragCount |-> 0]

\* the datagrams fed to the defragger when it is explored on its own: as
\* Datagrams, with MaxDefragMsgID message IDs
DefragDatagrams ==
    {[SessionID |-> s, MsgID |-> 0, FragID |-> 0, FragCount |-> 1] : s \in SessionIDs}
    \cup {[SessionID |-> s, MsgID |-> i, FragID |-> f, FragCount |-> MaxFrags] :
              s \in SessionIDs, i \in 1..MaxDefragMsgID, f \in 0..MaxFrags}

\* a defragger that keeps one record for all sessions: feeding a fragment of
\* one session forgets the assembly of every other session
FeedSingleRecord(df, m) ==
    IF m.FragCount <= 1
    THEN [state |-> df, out |-> <<m>>]
    ELSE LET r  == df[m.SessionID]
             r1 == IF r.count = 0 \/ r.msgID # m.MsgID
                   THEN [msgID |-> m.MsgID, count |-> m.FragCount, frags |-> {},
                         replaced |-> r.count # 0]
                   ELSE r
             r2 == IF m.FragID >= r1.count \/ m.FragID \in r1.frags
                   THEN r1
                   ELSE [r1 EXCEPT !.frags = @ \cup {m.FragID}]
         IN IF Cardinality(r2.frags) = r2.count
            THEN [state |-> [s \in SessionIDs |-> NoDefrag],
                  out |-> <<[m EXCEPT !.FragID = 0, !.FragCount = 1]>>]
            ELSE [state |-> [s \in SessionIDs |-> IF s = m.SessionID THEN r2 ELSE NoDefrag],
                  out |-> <<>>]

\* defragger.Feed: the new defragger state and the message emitted, if any.
\* A record's field replaced tells that the record took the place of an
\* assembly in progress (history only: nothing reads it).
Feed(df, m) ==
    IF m.FragCount <= 1
    THEN [state |-> df, out |-> <<m>>]
    ELSE LET r  == df[m.SessionID]
             r1 == IF r.count = 0 \/ r.msgID # m.MsgID
                   THEN [msgID |-> m.MsgID, count |-> m.FragCount, frags |-> {},
                         replaced |-> r.count # 0]
                   ELSE r
             r2 == IF m.FragID >= r1.count \/ m.FragID \in r1.frags
                   THEN r1
                   ELSE [r1 EXCEPT !.frags = @ \cup {m.FragID}]
         IN IF Cardinality(r2.frags) = r2.count
            THEN [state |-> [df EXCEPT ![m.SessionID] = NoDefrag],
                  out |-> <<[m EXCEPT !.FragID = 0, !.FragCount = 1]>>]
            ELSE [state |-> [df EXCEPT ![m.SessionID] = r2], out |-> <<>>]

\* ------------------------------------------------------- handleMessage()
\* lines 160-172: receive one datagram, decode it, feed the defragger.  The
\* message that comes out carries its payload in Data: payloads are told
\* apart by the number of datagrams received before (FragID holds the
\* connection the datagram came from).
PumpStep(a, d) ==
    /\ pump[a].pc = "recv"
    /\ Usable(a)
    /\ IF d = Malformed
       THEN UNCHANGED <<udpDefragger, pump>>
       ELSE LET r == Feed(udpDefragger, d) IN
            /\ udpDefragger' = r.state
            /\ IF r.out = <<>>
               THEN UNCHANGED pump
               ELSE pump' = [pump EXCEPT ![a].pc = "deliver",
                                         ![a].msg = <<("Data" :> nRecv) @@
                                                      [r.out[1] EXCEPT !.FragID = a]>>]
    /\ UNCHANGED <<panic, closed, pktConn, quicConn, udpSessionMap,
                   reconnectMutex, conns, nConns, maps, handles, nHandles,
                   proc, nDials, closer>>

\* the pump's receive step, counted: at most MaxRecv datagrams in a run
PumpReceive(a, d) ==
    /\ nRecv < MaxRecv
    /\ nRecv' = nRecv + 1
    /\ PumpStep(a, d)

\* the datagrams that are not fragments
Unfragmented == {d \in Datagrams : d.FragCount = 1}

\* the pump's receive step when the queues are explored: at most MaxFifoRecv
\* datagrams in a run
FifoReceive(a, d) ==
    /\ nRecv < MaxFifoRecv
    /\ nRecv' = nRecv + 1
    /\ PumpStep(a, d)

\* the pump's receive step, not counted: the defragger's states are finite
DefragReceive(a, d) ==
    /\ PumpStep(a, d)
    /\ UNCHANGED nRecv

\* line 174: the map the pump looks the session up in
PumpMap(a) == udpSessionMap

\* lines 176-181: the select takes its default branch
ChanFull(ch) == Len(handles[ch].q) >= ChanCap

\* a pump that sends with a plain channel send: it waits while the queue is full
PumpDeliverBlocking(a) ==
    LET m  == pump[a].msg[1]
        ch == maps[PumpMap(a)][m.SessionID] IN
    /\ pump[a].pc = "deliver"
    /\ ch # 0 => ~ChanFull(ch)
    /\ IF ch = 0
       THEN /\ pump' = [pump EXCEPT ![a] = [pc |-> "recv", msg |-> <<>>, last |-> "nosession"]]
            /\ UNCHANGED <<handles, panic>>
       ELSE IF handles[ch].chCloses > 0
       THEN /\ pump' = [pump EXCEPT ![a] = [pc |-> "recv", msg |-> <<>>, last |-> "panic"]]
            /\ panic' = "send on closed channel"
            /\ UNCHANGED handles
       ELSE /\ pump' = [pump EXCEPT ![a] = [pc |-> "recv", msg |-> <<>>, last |-> "sent"]]
            /\ handles' = [handles EXCEPT ![ch].q = Append(@, m),
                                          ![ch].enq = Append(@, m.Data)]
            /\ UNCHANGED panic
    /\ UNCHANGED <<closed, pktConn, quicConn, udpSessionMap, udpDefragger,
                   reconnectMutex, conns, nConns, maps, nHandles, proc, nDials,
                   closer, nRecv>>

\* lines 173-183: look the session up and send without blocking.  pump.last
\* records what became of the message and enq the payloads put into the
\* channel so far (history only: nothing reads them).
PumpDeliver(a) ==
    LET m  == pump[a].msg[1]
        ch == maps[PumpMap(a)][m.SessionID] IN
    /\ pump[a].pc = "deliver"
    /\ IF ch = 0
       THEN /\ pump' = [pump EXCEPT ![a] = [pc |-> "recv", msg |-> <<>>, last |-> "nosession"]]
            /\ UNCHANGED <<handles, panic>>
       ELSE IF handles[ch].chCloses > 0
       THEN /\ pump' = [pump EXCEPT ![a] = [pc |-> "recv", msg |-> <<>>, last |-> "panic"]]
            /\ panic' = "send on closed channel"
            /\ UNCHANGED handles
       ELSE IF ChanFull(ch)
       THEN /\ pump' = [pump EXCEPT ![a] = [pc |-> "recv", msg |-> <<>>, last |-> "dropped"]]
            /\ UNCHANGED <<handles, panic>>
       ELSE /\ pump' = [pump EXCEPT ![a] = [pc |-> "recv", msg |-> <<>>, last |-> "sent"]]
            /\ handles' = [handles EXCEPT ![ch].q = Append(@, m),
                                          ![ch].enq = Append(@, m.Data)]
            /\ UNCHANGED panic
    /\ UNCHANGED <<closed, pktConn, quicConn, udpSessionMap, udpDefragger,
                   reconnectMutex, conns, nConns, maps, nHandles, proc, nDials,
                   closer, nRecv>>

\* lines 160-163: ReceiveMessage fails and the pump ends
PumpExit(a) ==
    /\ pump[a].pc = "recv"
    /\ ~Usable(a)
    /\ pump' = [pump EXCEPT ![a].pc = "exited"]
    /\ UNCHANGED <<panic, closed, pktConn, quicConn, udpSessionMap, udpDefragger,
                   reconnectMutex, conns, nConns, maps, handles, nHandles,
                   proc, nDials, closer, nRecv>>

\* ---------------------------------------------------------- specification
\* NewClient, connect(), openStreamWithReconnect, DialTCP, DialUDP, Close
LifecycleNext ==
    \/ \E p \in Procs : ConnectClear(p)
    \/ \E p \in Procs, ok \in BOOLEAN : ConnectFactory(p, ok)
    \/ \E p \in Procs, ok \in BOOLEAN : ConnectQuicDial(p, ok)
    \/ \E p \in Procs, o \in HandshakeOutcomes : ConnectHandshake(p, o)
    \/ \E p \in Dialers, k \in {"TCP", "UDP"}, addrOK \in BOOLEAN : DialStart(p, k, addrOK)
    \/ \E p \in Dialers : DialLock(p)
    \/ \E p \in Dialers, e \in {NoErr, ErrTemporary, ErrPermanent} : DialOpenFirst(p, e)
    \/ \E p \in Dialers : DialNotify(p)
    \/ \E p \in Dialers, e \in {NoErr, ErrTemporary, ErrPermanent} : DialOpenSecond(p, e)
    \/ \E p \in Dialers, o \in Responses : DialRequest(p, o)
    \/ \E p \in Dialers : DialInstall(p)
    \/ \E p \in Dialers : DialReturn(p)
    \/ CloseLock
    \/ CloseBody
    \/ \E a \in ConnIds : ConnBreak(a)

\* the closes of the UDP handles: by the Hold goroutine and by the user
HandleNext ==
    \/ \E h \in HandleIds, serverEOF \in BOOLEAN : HoldClose(h, serverEOF)
    \/ \E h \in HandleIds : UserClose(h)

\* the datagram path: the handleMessage goroutines and the user's ReadFrom
PumpNext ==
    \/ \E a \in ConnIds, d \in Datagrams \cup {Malformed} : PumpReceive(a, d)
    \/ \E a \in ConnIds : PumpDeliver(a)
    \/ \E a \in ConnIds : PumpExit(a)
    \/ \E h \in HandleIds : ReadFrom(h)

Next == LifecycleNext \/ HandleNext \/ PumpNext

Spec == Init /\ [][Next]_vars

\* The connection lifecycle alone.  The handle and pump actions write only
\* panic, maps, handles, udpDefragger, pump and nRecv, none of which a
\* lifecycle action reads to decide what it does.
SpecLifecycle == Init /\ [][LifecycleNext]_vars

\* The lifecycle and the closes of the UDP handles, without the datagram
\* path: the pump and ReadFrom write only panic, the channels' contents,
\* udpDefragger, pump and nRecv, none of which the other actions read.
SpecSessions == Init /\ [][LifecycleNext \/ HandleNext]_vars

\* The datagram path under a client whose calls succeed unless the
\* connection is lost: NewClient, DialUDP calls, reconnects after a lost
\* connection, the pumps, ReadFrom, and the close of a handle by its Hold
\* goroutine, which may come at any time (the server ends the side stream).
\* The pumps receive whole datagrams here; fragments are fed in SpecDefrag.
DatagramLifecycleNext ==
    \/ \E p \in Procs : ConnectClear(p)
    \/ \E p \in Procs : ConnectFactory(p, TRUE)
    \/ \E p \in Procs : ConnectQuicDial(p, TRUE)
    \/ \E p \in Procs : ConnectHandshake(p, <<"ok", "">>)
    \/ \E p \in Dialers : DialStart(p, "UDP", TRUE)
    \/ \E p \in Dialers : DialLock(p)
    \/ \E p \in Dialers, e \in {NoErr, ErrPermanent} : DialOpenFirst(p, e)
    \/ \E p \in Dialers : DialNotify(p)
    \/ \E p \in Dialers, e \in {NoErr, ErrPermanent} : DialOpenSecond(p, e)
    \/ \E p \in Dialers, s \in SessionIDs : DialRequest(p, <<"ok", "", s>>)
    \/ \E p \in Dialers : DialInstall(p)
    \/ \E p \in Dialers : DialReturn(p)
    \/ \E a \in ConnIds : ConnBreak(a)

DatagramNext ==
    \/ DatagramLifecycleNext
    \/ \E a \in ConnIds, d \in Unfragmented \cup {Malformed} : PumpReceive(a, d)
    \/ \E a \in ConnIds : PumpDeliver(a)
    \/ \E a \in ConnIds : PumpExit(a)
    \/ \E h \in HandleIds : ReadFrom(h)
    \/ \E h \in HandleIds, serverEOF \in BOOLEAN : HoldClose(h, serverEOF)

SpecDatagrams == Init /\ [][DatagramNext]_vars

\* The pumps against the closes of the handles: as SpecDatagrams, with the
\* user's Close calls and without ReadFrom, which closes no channel and
\* sends into none.
ClosingNext ==
    \/ DatagramLifecycleNext
    \/ \E a \in ConnIds, d \in Unfragmented : PumpReceive(a, d)
    \/ \E a \in ConnIds : PumpDeliver(a)
    \/ \E a \in ConnIds : PumpExit(a)
    \/ \E h \in HandleIds, serverEOF \in BOOLEAN : HoldClose(h, serverEOF)
    \/ \E h \in HandleIds : UserClose(h)

SpecClosing == Init /\ [][ClosingNext]_vars

\* The defragger on its own: NewClient succeeds, and the pump of its
\* connection receives any number of datagrams of sessions nobody has
\* dialled, until the connection is lost.
DefragNext ==
    \/ \E p \in Procs : ConnectClear(p)
    \/ \E p \in Procs : ConnectFactory(p, TRUE)
    \/ \E p \in Procs : ConnectQuicDial(p, TRUE)
    \/ \E p \in Procs : ConnectHandshake(p, <<"ok", "">>)
    \/ \E a \in ConnIds, d \in DefragDatagrams \cup {Malformed} : DefragReceive(a, d)
    \/ \E a \in ConnIds : PumpDeliver(a)
    \/ \E a \in ConnIds : PumpExit(a)
    \/ \E a \in ConnIds : ConnBreak(a)

SpecDefrag == Init /\ [][DefragNext]_vars

\* The session queues on one connection: NewClient succeeds, DialUDP calls
\* succeed, the pump receives whole datagrams and delivers them, the users
\* read, a handle is closed by its Hold goroutine, the connection is lost.
FifoNext ==
    \/ \E p \in Procs : ConnectClear(p)
    \/ \E p \in Procs : ConnectFactory(p, TRUE)
    \/ \E p \in Procs : ConnectQuicDial(p, TRUE)
    \/ \E p \in Procs : ConnectHandshake(p, <<"ok", "">>)
    \/ \E p \in Dialers : DialStart(p, "UDP", TRUE)
    \/ \E p \in Dialers : DialLock(p)
    \/ \E p \in Dialers : DialOpenFirst(p, NoErr)
    \/ \E p \in Dialers, s \in SessionIDs : DialRequest(p, <<"ok", "", s>>)
    \/ \E p \in Dialers : DialInstall(p)
    \/ \E p \in Dialers : DialReturn(p)
    \/ \E a \in ConnIds, d \in Unfragmented \cup {Malformed} : FifoReceive(a, d)
    \/ \E a \in ConnIds : PumpDeliver(a)
    \/ \E a \in ConnIds : PumpExit(a)
    \/ \E h \in HandleIds : ReadFrom(h)
    \/ \E h \in HandleIds, serverEOF \in BOOLEAN : HoldClose(h, serverEOF)
    \/ \E a \in ConnIds : ConnBreak(a)

SpecFifo == Init /\ [][FifoNext]_vars

\* WriteTo on the handles of one connection: NewClient succeeds, DialUDP
\* calls succeed, the users write, the connection may be lost.
WriteNext ==
    \/ \E p \in Procs : ConnectClear(p)
    \/ \E p \in Procs : ConnectFactory(p, TRUE)
    \/ \E p \in Procs : ConnectQuicDial(p, TRUE)
    \/ \E p \in Procs : ConnectHandshake(p, <<"ok", "">>)
    \/ \E p \in Dialers : DialStart(p, "UDP", TRUE)
    \/ \E p \in Dialers : DialLock(p)
    \/ \E p \in Dialers : DialOpenFirst(p, NoErr)
    \/ \E p \in Dialers, s \in SessionIDs : DialRequest(p, <<"ok", "", s>>)
    \/ \E p \in Dialers : DialInstall(p)
    \/ \E p \in Dialers : DialReturn(p)
    \/ \E h \in HandleIds, addrOK \in BOOLEAN, len \in 1..MaxData : WriteStart(h, addrOK, len)
    \/ \E h \in HandleIds, k \in {"ok", "err", "tooLarge"}, S \in Sizes \cup {0}, r \in Rands :
          WriteFirst(h, <<k, S>>, r)
    \/ \E h \in HandleIds, ok \in BOOLEAN : WriteFrag(h, ok)
    \/ \E h \in HandleIds : WriteReturn(h)
    \/ \E a \in ConnIds : ConnBreak(a)

SpecWrite == Init /\ [][WriteNext]_vars

\* SpecSessions with the scheduling the Go runtime gives: a Hold goroutine
\* whose Stream.Read has failed is eventually run.
SpecSessionsFair ==
    SpecSessions /\ \A h \in HandleIds : WF_vars(HoldClose(h, FALSE))

\* ================================================================ claims
\* how many events of kind k the call's trace holds
Count(t, k) == Cardinality({i \in 1..Len(t) : t[i][1] = k})

\* the QUIC connections dialed and not yet closed by the client
ActiveConns == {a \in ConnIds : conns[a].dialed /\ conns[a].appClose = "none"}

\* C1, as stated: once Client.Close has returned, closed stays true and every
\* DialTCP / DialUDP call begun afterwards fails with ErrClosed, whatever its
\* arguments and whatever the state of the connection.
C1_ClosedMonotonicityAnyArguments ==
    /\ closer.returned => closed
    /\ \A p \in Dialers : proc[p].afterClose =>
          /\ proc[p].pc \in {"lock", "ret"}
          /\ proc[p].pc = "ret" => proc[p].res = ErrClosed

\* C1, amended: once Client.Close has returned, closed stays true; every
\* DialUDP call and every DialTCP call with a well-formed address begun
\* afterwards fails with ErrClosed, without opening a stream or reconnecting;
\* a DialTCP call with a malformed address fails with the address error.
C1_ClosedMonotonicity ==
    /\ closer.returned => closed
    /\ \A p \in Dialers : proc[p].afterClose =>
          /\ proc[p].pc \in {"lock", "ret"}
          /\ proc[p].trace = <<>>
          /\ proc[p].pc = "ret" =>
                proc[p].res = IF proc[p].addrOK THEN ErrClosed ELSE ErrBadAddr

C1_Witness ==
    \E p \in Dialers : /\ proc[p].afterClose /\ proc[p].pc = "ret"
                       /\ proc[p].res = ErrClosed /\ ~Usable(quicConn)

\* C2: one DialTCP / DialUDP call invokes the reconnect notifier at most
\* once, calls connect() at most once and attempts OpenStream at most twice;
\* a failure of the OpenStream that follows a successful reconnect is
\* returned to the caller, with no further retry.
C2_AtMostOneReconnectPerDial ==
    \A p \in Dialers :
        LET t == proc[p].trace IN
        /\ Count(t, "notify") <= 1
        /\ Count(t, "connect") <= 1
        /\ Count(t, "open") <= 2
        /\ (Len(t) >= 4 /\ t[4][1] = "open" /\ t[4][2] # "") =>
              /\ proc[p].pc = "ret"
              /\ proc[p].res = Err(t[4][2], "")
              /\ reconnectMutex # p

C2_Witness ==
    \E p \in Dialers : /\ proc[p].pc = "ret" /\ Len(proc[p].trace) = 4
                       /\ proc[p].trace[4][2] # "" /\ proc[p].res # NoErr

\* the part of C4 that holds: the first OpenStream having failed with a
\* permanent error, the notifier is called once, with that error, before
\* connect() starts, and a second OpenStream that succeeds is on the
\* connection this connect() installed
C4_NotifiedThenReconnected(p) ==
    LET t == proc[p].trace IN
    (Len(t) >= 1 /\ t[1] = <<"open", "permanent">>) =>
        /\ proc[p].pc # "notify" => Len(t) >= 2 /\ t[2] = <<"notify", "permanent">>
        /\ Count(t, "notify") <= 1
        /\ \A i \in 1..Len(t) : t[i][1] = "connect" => i = 3
        /\ (Len(t) = 4 /\ t[4] = <<"open", "">>) =>
              /\ proc[p].session = proc[p].att
              /\ conns[proc[p].att].cc
              /\ proc[p].pc \in {"request", "install", "ret"}

C4_SecondOpenSucceeded(p) ==
    Len(proc[p].trace) = 4 /\ proc[p].trace[1] = <<"open", "permanent">>
                           /\ proc[p].trace[4] = <<"open", "">>

\* C4, as stated: when the first OpenStream of a dial fails with a permanent
\* error the notifier is invoked exactly once, with that error, before
\* connect() starts; if connect() and the second OpenStream succeed, the
\* stream is on the newly installed connection and the caller observes a
\* successful dial.
C4_ReconnectThenDialSucceeds ==
    \A p \in Dialers :
        /\ C4_NotifiedThenReconnected(p)
        /\ (C4_SecondOpenSucceeded(p) /\ proc[p].pc = "ret") => proc[p].res = NoErr

\* C4, amended: ... if connect() and the second OpenStream succeed, the
\* stream is on the newly installed connection and openStreamWithReconnect
\* returns it with no error; the caller observes a successful dial unless the
\* request/response exchange on that stream fails or the server rejects it.
C4_ReconnectOnPermanentError ==
    \A p \in Dialers :
        /\ C4_NotifiedThenReconnected(p)
        /\ (C4_SecondOpenSucceeded(p) /\ proc[p].pc = "ret") =>
              proc[p].res[1] \in {"nil", "pack", "unpack", "connection rejected"}

C4_Witness ==
    \E p \in Dialers : /\ C4_SecondOpenSucceeded(p) /\ proc[p].pc = "ret"
                       /\ proc[p].res = NoErr
                       /\ proc[p].session = quicConn /\ quicConn > 1

\* C5: when an OpenStream of a dial fails with a temporary error, the dial
\* returns that error: nothing follows the failure in the call (no notifier,
\* no connect(), no other OpenStream), a first OpenStream that fails so is
\* all the call did, and the step leaves the closed flag, the current packet
\* conn, QUIC connection and session map, and every connection and map
\* object, as they were.
C5_TemporaryErrorNoReconnect ==
    /\ [](\A p \in Dialers :
            \A i \in 1..Len(proc[p].trace) :
                proc[p].trace[i] = <<"open", "temporary">> =>
                    /\ i = Len(proc[p].trace)
                    /\ proc[p].pc = "ret"
                    /\ proc[p].res = ErrTemporary
                    /\ reconnectMutex # p)
    /\ [][\A p \in Dialers :
            (proc[p].pc \in {"open1", "open2"} /\ proc'[p].res = ErrTemporary) =>
                UNCHANGED <<pktConn, quicConn, udpSessionMap, conns, maps, closed>>]_vars

C5_Witness ==
    \E p \in Dialers : /\ proc[p].pc = "ret" /\ proc[p].res = ErrTemporary
                       /\ Usable(quicConn)

\* C8: when the server hello has ok=false, connect() returns an error that
\* carries the server's message, the auth-error application-close is what
\* the new QUIC connection is closed with, the new packet conn is closed, no
\* congestion controller is installed, no pump is spawned and the new
\* connection is not installed as current.
C8_AuthRejection ==
    \A a \in ConnIds : conns[a].rejected # "" =>
        /\ conns[a].appClose = qErrorAuth
        /\ conns[a].pkt = "closed"
        /\ ~conns[a].cc
        /\ pump[a].pc = "none"
        /\ quicConn # a /\ pktConn # a /\ udpSessionMap # a
        /\ \A p \in Procs : proc[p].att = a =>
              /\ proc[p].pc \in {"ret", "failed"}
              /\ proc[p].res = Err("auth error", conns[a].rejected)

C8_Witness ==
    /\ proc[Constructor].pc = "failed"
    /\ proc[Constructor].res = Err("auth error", "bad auth")
    /\ conns[1].rejected = "bad auth"

\* C9: in every reachable state at most one QUIC connection of the client is
\* active (dialed and not yet closed by the client).
C9_AtMostOneActiveConnection == Cardinality(ActiveConns) <= 1

C9_Witness ==
    \E a, b \in ConnIds : /\ a # b /\ conns[a].dialed /\ conns[a].appClose = "zero"
                          /\ b \in ActiveConns /\ quicConn = a

\* handle h's Close ran in this step (the user's or the Hold goroutine's)
CloseRan(h) ==
    \/ handles'[h].userCloses # handles[h].userCloses
    \/ handles[h].hold = "read" /\ handles'[h].hold = "done"

\* the Close invocations on handle h that have completed
Closes(h) == handles[h].userCloses + (IF handles[h].hold = "done" THEN 1 ELSE 0)

\* C3: once a reconnect has replaced the session map, a Close of a handle
\* made before the reconnect (one that captured an earlier map) leaves the
\* current map as it was and closes no channel registered in it, also when
\* the current map holds a session with the handle's session ID.
C3_SessionMapCapturedClose ==
    [][\A h \in HandleIds :
          (handles[h].made /\ handles[h].sessionMap # udpSessionMap /\ CloseRan(h)) =>
              /\ maps'[udpSessionMap] = maps[udpSessionMap]
              /\ \A s \in SessionIDs :
                    LET ch == maps[udpSessionMap][s] IN
                    ch # 0 => handles'[ch].chCloses = handles[ch].chCloses]_vars

C3_Witness ==
    \E h \in HandleIds :
        /\ handles[h].made /\ handles[h].sessionMap # udpSessionMap
        /\ Closes(h) >= 1
        /\ handles[h].closeSaw # 0
        /\ maps[udpSessionMap][handles[h].UDPSessionID] = handles[h].closeSaw
        /\ handles[handles[h].closeSaw].chCloses = 0

\* C6: the pump never waits on a session queue (a pump with a message to
\* deliver can always take its step); a delivery to a queue that already
\* holds ChanCap messages drops the message, leaves every queue as it was
\* and puts the pump back to receiving; no queue ever holds more than
\* ChanCap messages.
C6_Backpressure ==
    /\ [](\A h \in HandleIds : Len(handles[h].q) <= ChanCap)
    /\ [](\A a \in ConnIds : pump[a].pc = "deliver" => ENABLED PumpDeliver(a))
    /\ [][\A a \in ConnIds :
            LET ch == maps[udpSessionMap][pump[a].msg[1].SessionID] IN
            (pump[a].pc = "deliver" /\ pump'[a].pc # "deliver" /\ ch # 0
                /\ Len(handles[ch].q) = ChanCap) =>
                    /\ pump'[a].pc = "recv"
                    /\ pump'[a].last = "dropped"
                    /\ \A h \in HandleIds : handles'[h].q = handles[h].q]_vars

C6_Witness ==
    \E a \in ConnIds, h \in HandleIds :
        /\ pump[a].pc = "recv" /\ pump[a].last = "dropped"
        /\ Len(handles[h].q) = ChanCap /\ handles[h].chCloses = 0

\* C7: for a UDP handle DialUDP returned, once the connection it is attached
\* to has been shut down (by Client.Close or by a reconnect), its receive
\* channel is eventually closed, so that a ReadFrom blocked on the handle
\* returns ErrClosed.
C7_CloseWhileReading ==
    \A h \in HandleIds :
        (handles[h].made /\ conns[handles[h].Session].appClose # "none")
            ~> (handles[h].chCloses > 0)

\* C10: whatever the number of Close invocations on one handle, by the user
\* or by the Hold goroutine, the handle's channel is closed exactly once, its
\* map entry is gone, no channel is closed twice and nothing panics.
C10_HandleCloseIdempotent ==
    /\ panic = "none"
    /\ \A h \in HandleIds :
          /\ handles[h].chCloses <= 1
          /\ Closes(h) >= 1 =>
                /\ handles[h].chCloses = 1
                /\ \A a \in ConnIds, s \in SessionIDs : maps[a][s] # h

\* ---------------------------------------------------------------- C11
\* the fragments of the assembly in progress for session t still missing
Missing(t) == (0..(udpDefragger[t].count - 1)) \ udpDefragger[t].frags

\* C11 (state part): whatever datagram of a session s the pump feeds next,
\* the record of every other session t stays as it is; and the assembly in
\* progress for t goes on with its next missing fragment: the fragment is
\* added, or, if it was the last one missing, the message of t is emitted.
C11_OtherSessionsUntouched ==
    /\ \A d \in DefragDatagrams : \A t \in SessionIDs \ {d.SessionID} :
           Feed(udpDefragger, d).state[t] = udpDefragger[t]
    /\ \A t \in SessionIDs : \A f \in Missing(t) :
           LET d == [SessionID |-> t, MsgID |-> udpDefragger[t].msgID,
                     FragID |-> f, FragCount |-> udpDefragger[t].count]
               r == Feed(udpDefragger, d) IN
           IF Missing(t) = {f}
           THEN r.out = <<[d EXCEPT !.FragID = 0, !.FragCount = 1]>>
           ELSE r.out = <<>> /\ r.state[t].msgID = udpDefragger[t].msgID
                             /\ r.state[t].frags = udpDefragger[t].frags \cup {f}

\* C11 (step part): one step of the program changes the record of at most
\* one session.
C11_OneSessionPerStep ==
    \A t \in SessionIDs : udpDefragger'[t] # udpDefragger[t] =>
        \A u \in SessionIDs \ {t} : udpDefragger'[u] = udpDefragger[u]

\* C11: defragger isolation.  Feeding a fragment of session s, a fragment
\* with a new msgID included, discards at most the assembly in progress of
\* s; the assembly in progress of any other session is unaffected and
\* completes when its remaining fragments arrive, whatever is fed between.
C11_DefraggerIsolation ==
    []C11_OtherSessionsUntouched /\ [][C11_OneSessionPerStep]_vars

\* a fragment with a new msgID has just replaced the assembly in progress of
\* one session while another session has an assembly in progress
C11_Witness ==
    \E s \in SessionIDs, t \in SessionIDs :
        /\ s # t
        /\ udpDefragger[s].replaced /\ udpDefragger[s].frags # {}
        /\ udpDefragger[t].count # 0 /\ udpDefragger[t].frags # {}
        /\ Missing(t) # {}

\* ---------------------------------------------------------------- C12
\* C12: every entry of a session map has exactly one owning handle: the
\* channel stored under a session ID is the channel of one live handle that
\* has this session ID and this map; and only a Close of that handle takes
\* the entry out of the map (or puts another channel in its place) and
\* closes the channel.
C12_SingleOwner ==
    /\ [](\A a \in ConnIds, s \in SessionIDs :
            LET h == maps[a][s] IN
            h # 0 => /\ handles[h].made /\ handles[h].chCloses = 0
                     /\ handles[h].UDPSessionID = s /\ handles[h].sessionMap = a)
    /\ [][\A h \in HandleIds :
            /\ (\E a \in ConnIds, s \in SessionIDs :
                    maps[a][s] = h /\ maps'[a][s] # h) => CloseRan(h)
            /\ handles'[h].chCloses # handles[h].chCloses => CloseRan(h)]_vars

\* ---------------------------------------------------------------- C13
\* the errors connect() returns on its failure paths
ConnectErrors == {"factory", "dial", "stream", "handshake", "auth error"}

\* C13: when connect() has failed, the attempt has left nothing open: a
\* failed factory made no packet conn; otherwise the attempt's packet conn
\* is closed; a failed QUIC dial made no QUIC connection; a QUIC connection
\* the attempt made was closed with the protocol-error code when the control
\* stream or the handshake I/O failed and with the auth-error code when the
\* server rejected the client; and the attempt's connection is not installed.
C13_FailedConnectLeavesNothingOpen ==
    \A p \in Procs :
        (proc[p].pc \in {"ret", "failed"} /\ proc[p].res[1] \in ConnectErrors) =>
            LET a == proc[p].att
                k == proc[p].res[1] IN
            /\ k = "factory" <=> a = 0
            /\ a # 0 =>
                  /\ conns[a].pkt = "closed"
                  /\ quicConn # a /\ pktConn # a /\ udpSessionMap # a
                  /\ pump[a].pc = "none"
                  /\ k = "dial" => ~conns[a].dialed /\ conns[a].appClose = "none"
                  /\ k \in {"stream", "handshake"} =>
                        conns[a].dialed /\ conns[a].appClose = qErrorProtocol
                  /\ k = "auth error" =>
                        conns[a].dialed /\ conns[a].appClose = qErrorAuth

\* a reconnect has failed at the control stream, after an earlier connection
C13_Witness ==
    \E p \in Dialers :
        /\ proc[p].pc = "ret" /\ proc[p].res = Err("stream", "")
        /\ proc[p].att = 2
        /\ conns[2].appClose = qErrorProtocol /\ conns[2].pkt = "closed"

\* ---------------------------------------------------------------- C14
\* the pumps that are inside an iteration of their loop: a datagram has been
\* received and decoded and fed to the defragger (lines 164-172) and its
\* delivery (lines 173-183) is still to come
PumpsInStep == {a \in ConnIds : pump[a].pc = "deliver"}

\* C14: the defragger is used by one pump at a time: in every reachable
\* state, during and after a reconnect included, at most one pump is inside
\* its decode / defragment / deliver step.
C14_OnePumpAtATime == Cardinality(PumpsInStep) <= 1

\* ---------------------------------------------------------------- C15
\* the payloads in the queue of handle h, oldest first
Queued(h) == [i \in 1..Len(handles[h].q) |-> handles[h].q[i].Data]

\* C15: per-session FIFO.  The payloads the ReadFrom calls on a handle have
\* returned, followed by the payloads still in its queue, are the payloads
\* put into the queue, in the order they were put: nothing is returned
\* twice, out of order, or without having been enqueued, and what is missing
\* was never enqueued (dropped on a full queue).  The order they were put in
\* is the order in which their datagrams arrived (payloads are numbered by
\* arrival), and no payload is enqueued twice.
C15_PerSessionFifo ==
    \A h \in HandleIds :
        /\ handles[h].enq = handles[h].deq \o Queued(h)
        /\ \A i, j \in 1..Len(handles[h].enq) :
               i < j => handles[h].enq[i] < handles[h].enq[j]

\* ---------------------------------------------------------------- C16
\* C16: WriteTo's fallback.  The first frame a call sends is the whole
\* message, unfragmented (msgID 0, fragID 0, fragCount 1).  Further frames
\* are sent only if that send reported message-too-large: they are the
\* fragments, in order, all with the call's one msgID, which lies in
\* 1..0xFFFF; a fragment whose send fails is the last frame sent and the
\* call returns that error; with no failure every fragment is sent and the
\* call returns nil.  Any other outcome of the first send is returned with
\* no fragment sent; an address that does not parse sends nothing.
C16_WriteToFallback ==
    \A h \in HandleIds :
        LET w == handles[h].w
            done == w.pc \in {"ret", "idle"} IN
        /\ w.sent # <<>> =>
              w.sent[1] = [SessionID |-> handles[h].UDPSessionID, MsgID |-> 0,
                           FragID |-> 0, FragCount |-> 1]
        /\ Len(w.sent) >= 2 => w.first = "tooLarge" /\ w.msgID \in 1..RandLimit
        /\ \A i \in 2..Len(w.sent) :
              /\ w.sent[i].MsgID = w.msgID
              /\ w.sent[i].SessionID = handles[h].UDPSessionID
              /\ w.sent[i].FragID = i - 2
              /\ w.sent[i].FragCount = w.sent[2].FragCount
              /\ w.sent[i].FragID < w.sent[i].FragCount
        /\ w.first = "ok"  => Len(w.sent) = 1 /\ done /\ w.res = NoErr
        /\ w.first = "err" => Len(w.sent) = 1 /\ done /\ w.res = Err("send", "")
        /\ w.failed # 0 => Len(w.sent) = w.failed /\ done /\ w.res = Err("send", "")
        /\ (w.first = "tooLarge" /\ w.failed = 0 /\ done) =>
              /\ w.res = NoErr
              /\ Len(w.sent) = 1 + w.sent[2].FragCount
        /\ w.res = ErrBadAddr => w.sent = <<>> /\ done

\* a call that fragmented into three, with the greatest msgID, and whose
\* second fragment could not be sent
C16_Witness ==
    \E h \in HandleIds :
        LET w == handles[h].w IN
        /\ w.pc = "ret" /\ w.failed = 3 /\ w.msgID = RandLimit
        /\ w.sent[3].FragCount = 3 /\ w.todo # <<>>

\* ---------------------------------------------------------------- C17
\* C17: epoch isolation.  A message in the queue of a handle was received
\* by the pump of the connection whose connect() made the map the handle is
\* registered in: the pump of an abandoned connection delivers nothing into
\* a session of the map made by the reconnect.
C17_EpochIsolation ==
    \A h \in HandleIds : \A i \in 1..Len(handles[h].q) :
        handles[h].q[i].FragID = handles[h].sessionMap

\* ---------------------------------------------------------------- C18
\* C18: a UDP handle is registered in the map of its own connection: the map
\* that holds its channel, and that its close hook captured, is the map made
\* by the connect() that established the connection its session was
\* negotiated on.  A handle negotiated on an abandoned connection is never
\* put into the map made by the reconnect.
C18_RegisteredInOwnMap ==
    \A h \in HandleIds : handles[h].made => handles[h].sessionMap = handles[h].Session

\* ---------------------------------------------------------------- C19
\* the callers that are inside connect()
Connecting == {p \in Procs : proc[p].pc \in {"connect", "factory", "quicdial", "handshake"}}

\* the dials that are inside openStreamWithReconnect, past line 188
InOpenStream == {p \in Dialers : proc[p].pc \in {"open1", "notify", "open2"}} \cup
                (Connecting \cap Dialers)

\* C19 (state part): no two connect() executions overlap, Client.Close does
\* not overlap a connect() nor a dial's openStreamWithReconnect, and a dial
\* calls the notifier only for a current connection that is closed or lost.
C19_Exclusion ==
    /\ Cardinality(Connecting) <= 1
    /\ Cardinality(InOpenStream) <= 1
    /\ closer.pc = "locked" => Connecting = {} /\ InOpenStream = {}
    /\ \A p \in Dialers : p \in InOpenStream => reconnectMutex = p
    /\ \A p \in Dialers : proc[p].pc = "notify" => ~Usable(quicConn)

\* C19 (step part): a dial that takes the mutex while the current connection
\* is usable, as it is after another dial's successful reconnect, makes its
\* OpenStream on that connection and neither calls the notifier nor
\* connect(): it continues with a stream of the current connection or
\* returns a temporary error.
C19_WaiterUsesNewConnection ==
    \A p \in Dialers :
        (proc[p].pc = "open1" /\ proc'[p].pc # "open1" /\ Usable(quicConn)) =>
            /\ proc'[p].pc \in {"request", "ret"}
            /\ proc'[p].pc = "request" =>
                  proc'[p].session = quicConn /\ proc'[p].trace = <<<<"open", "">>>>
            /\ proc'[p].pc = "ret" => proc'[p].res = ErrTemporary
            /\ UNCHANGED <<quicConn, pktConn, udpSessionMap, conns, nConns>>

\* C19: one failure, one reconnect.  The dials, the reconnects and
\* Client.Close exclude one another, and after a successful reconnect a dial
\* that waited opens its stream on the new connection without calling the
\* notifier or connect() again.
C19_OneFailureOneReconnect ==
    []C19_Exclusion /\ [][C19_WaiterUsesNewConnection]_vars

\* one dial has reconnected (connection 2) and the other dial, with a single
\* OpenStream and no notifier call, has its stream on connection 2
C19_Witness ==
    \E p, q \in Dialers :
        /\ p # q
        /\ Len(proc[p].trace) = 4 /\ proc[p].trace[3] = <<"connect", "">>
        /\ proc[p].trace[4] = <<"open", "">> /\ proc[p].att = 2
        /\ proc[q].pc = "request" /\ proc[q].session = 2
        /\ proc[q].trace = <<<<"open", "">>>>

\* ---------------------------------------------------------------- C20
\* C20: no send on a closed channel and no double close.  The program never
\* panics: no pump has sent, or is about to send, into a channel that is
\* closed (a channel found in the map the pump looks up is open), and no
\* channel is closed more than once, however many Close calls there are.
C20_NoSendOnClosedChannel ==
    /\ panic = "none"
    /\ \A h \in HandleIds : handles[h].chCloses <= 1
    /\ \A a \in ConnIds :
          /\ pump[a].last # "panic"
          /\ pump[a].pc = "deliver" =>
                LET ch == maps[PumpMap(a)][pump[a].msg[1].SessionID] IN
                ch # 0 => handles[ch].chCloses = 0
    /\ \A a \in ConnIds, s \in SessionIDs :
          maps[a][s] # 0 => handles[maps[a][s]].chCloses = 0

\* a pump holds a message for a session of the current map whose handle has
\* had Close called twice, by Hold and by the user, and whose channel is
\* closed
C20_Witness ==
    \E a \in ConnIds, h \in HandleIds :
        /\ pump[a].pc = "deliver"
        /\ pump[a].msg[1].SessionID = handles[h].UDPSessionID
        /\ handles[h].sessionMap = udpSessionMap
        /\ handles[h].chCloses = 1 /\ Closes(h) >= 2

====
